---- MODULE Spec2Model ----
(***************************************************************************)
(* State-machine model of NavierStokes3D.cpp: the time loop of             *)
(* NavierStokes::solve, the two assembly routines, the linear solve and    *)
(* the post-processing, on a small mesh with exact integer arithmetic.     *)
(*                                                                         *)
(* Units.  Times (time, deltat, T) are counted in units of 0.1, so that    *)
(* the literal 0.1 of solve() is TimeForces == 1.  The finite-element      *)
(* tables are chosen so that every division of the source is exact.        *)
(***************************************************************************)
EXTENDS Integers, Sequences, FiniteSets, TLC

\* ------------------------------------------------------------------ bounds
\* Largest final time T explored (in units of 0.1).
MaxT == 4
\* Largest number of MPI processes explored.
MaxProcs == 2
\* End time of the long runs, which reach the first periodic output.
LongT == 20
\* Largest value of the preconditioner selector explored.
MaxSelector == 4

\* ------------------------------------------------------------- constants
\* "if ( time > 0.1)" in solve(), in units of 0.1.
TimeForces == 1
\* "if( time_step % 20 == 0) output(time_step)" in solve().
OutputEvery == 20
\* "if( time == -1)" in assemble_time_step: -1.0 in units of 0.1.
Bdf2Time == -10
\* "double c_D_max = -999" and "double c_L_min = 999" in solve().
CDMaxInit == -999
CLMinInit == 999
\* Kinematic viscosity nu and density rho (configuration of the class).
nu == 2
rho == 1
\* "unsigned int preconditioner_type = 0" in solve_time_step.
preconditioner_type == 0

\* The step sizes and inlet amplitudes a run may be configured with.
DeltatVals == {1, 2}
InletVals == {1, 2}

\* ------------------------------------------------------------------ mesh
\* DoFs are renumbered component-wise: velocity first, pressure last.
VelocityDofs == {1, 2, 3}
PressureDofs == {4}
Dofs == VelocityDofs \cup PressureDofs
DofPairs == Dofs \X Dofs
QuadraturePoints == {1, 2}

\* Boundary faces of the mesh: the boundary id and the velocity DoFs of the
\* face.  0 = inlet, 1 = outlet, 2 = walls, 3 = obstacle.  DoF 2 lies on the
\* edge shared by the inlet and a wall; DoF 3 is not constrained; the
\* pressure DoF 4 lies on a wall face.
BoundaryFaces ==
    { [id |-> 0, dofs |-> {1, 2}],
      [id |-> 1, dofs |-> {3}],
      [id |-> 2, dofs |-> {2, 4}],
      [id |-> 3, dofs |-> {2}] }

\* Values of the shape functions at the quadrature points (fe_values).
\* A shape function is primitive: it has either a velocity part or a
\* pressure part.
VelocityValue(i, q) == <<<<2, 0>>, <<2, 2>>, <<0, 2>>, <<0, 0>>>>[i][q]
VelocityGradient(i, q) == <<<<1, 0>>, <<-1, 1>>, <<0, -1>>, <<0, 0>>>>[i][q]
VelocityDivergence(i, q) == <<<<1, 1>>, <<0, -1>>, <<-1, 0>>, <<0, 0>>>>[i][q]
PressureValue(i, q) == IF i \in PressureDofs THEN 2 ELSE 0
JxW(q) == 1

\* ------------------------------------------------------------- utilities
RECURSIVE SumOver(_, _)
SumOver(f, S) ==
    IF S = {} THEN 0
    ELSE LET x == CHOOSE y \in S : TRUE
         IN  f[x] + SumOver(f, S \ {x})

SumQ(f) == SumOver(f, QuadraturePoints)

Abs(x) == IF x < 0 THEN -x ELSE x
Max(a, b) == IF a > b THEN a ELSE b
Min(a, b) == IF a < b THEN a ELSE b
MinOfSet(S) == CHOOSE x \in S : \A y \in S : x <= y

ZeroMatrix == [p \in DofPairs |-> 0]
ZeroVector == [i \in Dofs |-> 0]
\* A default-constructed vector: no entries.
EmptyVector == << >>

\* A.add(s, B)
MatAdd(A, s, B) == [p \in DofPairs |-> A[p] + s * B[p]]

\* The fields the Krylov solver may leave on the unconstrained unknowns.
VelocityVals == {0, 1}
PressureVals == {-1, 0, 1}

VARIABLES
    deltat,             \* step size (configuration)
    T,                  \* final time (configuration)
    inlet_amp,          \* values of inlet_velocity on the inlet: at the time
                        \* of the first step, and at the later times
    selector,           \* value the switch of solve_time_step is entered with
    pc,                 \* position in solve()
    time,               \* double time
    time_step,          \* unsigned int time_step
    system_matrix,
    mass_matrix,
    stiffness_matrix,
    convection_matrix,
    pressure_mass,
    system_rhs,
    solution_owned,
    solution,
    previous_solution,
    boundary_values,    \* the map built by the last assembly
    inflow_values,      \* the same map after the inlet call only
    presolve_solution,  \* 'solution' as the last Krylov solve found it
    exception,          \* the exception that ended solve(), or "none"
    c_D_max,
    c_L_min,
    trace,              \* calls and printed lines, in order
    procs,              \* number of MPI processes (collective-call view)
    mpi                 \* per-process state of one time step (collective-call view)

vars == << deltat, T, inlet_amp, selector, pc, time, time_step, system_matrix, mass_matrix,
           stiffness_matrix, convection_matrix, pressure_mass, system_rhs,
           solution_owned, solution, previous_solution, boundary_values,
           inflow_values, presolve_solution, exception, c_D_max, c_L_min,
           trace, procs, mpi >>

config_vars == << deltat, T, inlet_amp, selector >>
matrix_vars == << system_matrix, mass_matrix, stiffness_matrix,
                  convection_matrix, pressure_mass >>
coeff_vars == << c_D_max, c_L_min >>
mpi_vars == << procs, mpi >>

Event(name) == [ev |-> name, step |-> time_step]

\* ------------------------------------------------- finite-element values
\* fe_values[velocity].get_function_values(field, ...) at point q
FunctionValue(field, q) ==
    SumOver([i \in Dofs |-> field[i] * VelocityValue(i, q)], Dofs)
\* fe_values[velocity].get_function_divergences(field, ...) at point q
FunctionDivergence(field, q) ==
    SumOver([i \in Dofs |-> field[i] * VelocityDivergence(i, q)], Dofs)

\* Viscosity term.
CellStiffness(i, j) ==
    SumQ([q \in QuadraturePoints |->
            nu * VelocityGradient(i, q) * VelocityGradient(j, q) * JxW(q)])

\* Time derivative discretization of assemble(): weight 1/deltat.
CellMass(i, j) ==
    SumQ([q \in QuadraturePoints |->
            (VelocityValue(i, q) * VelocityValue(j, q) * JxW(q)) \div deltat])

\* Time derivative discretization of the "for bdf2" branch: weight .5/deltat.
CellMassBdf2(i, j) ==
    SumQ([q \in QuadraturePoints |->
            (VelocityValue(i, q) * VelocityValue(j, q) * JxW(q)) \div (2 * deltat)])

\* Convective term, linearized with the field 'u'.
CellConvective(u, i, j) ==
    SumQ([q \in QuadraturePoints |->
            VelocityGradient(j, q) * FunctionValue(u, q)
              * VelocityValue(i, q) * JxW(q)])

\* Temam stabilization term: 0.5 * div(u) * (phi_i, phi_j).
CellTemam(u, i, j) ==
    SumQ([q \in QuadraturePoints |->
            (FunctionDivergence(u, q) * VelocityValue(i, q)
               * VelocityValue(j, q) * JxW(q)) \div 2])

\* Pressure terms of the momentum and of the continuity equation.
CellMatrix(i, j) ==
    SumQ([q \in QuadraturePoints |->
            (PressureValue(i, q) * VelocityDivergence(j, q)
               - PressureValue(j, q) * VelocityDivergence(i, q)) * JxW(q)])

\* Pressure mass matrix.
CellPressureMass(i, j) ==
    SumQ([q \in QuadraturePoints |->
            (PressureValue(i, q) * PressureValue(j, q) * JxW(q)) \div nu])

\* Time derivative discretization on the right hand side.
CellRhs(u, i) ==
    SumQ([q \in QuadraturePoints |->
            (FunctionValue(u, q) * VelocityValue(i, q) * JxW(q)) \div deltat])

\* ---------------------------------------------------- Dirichlet conditions
\* A mask that also selects the pressure component.
ComponentMaskAll(d) == d \in Dofs

\* ComponentMask({true, true, true, false}): the velocity components.
ComponentMask(d) == d \in VelocityDofs

\* inlet_velocity after set_time(t), and Functions::ZeroFunction.
InletValue(t) == IF t <= deltat THEN inlet_amp[1] ELSE inlet_amp[2]
InletVelocity(t) == [d \in Dofs |-> InletValue(t)]
ZeroFunction == [d \in Dofs |-> 0]

\* VectorTools::interpolate_boundary_values(dof_handler, {ids -> function},
\* boundary_values, mask): an entry is assigned for every selected DoF of
\* every face with one of the ids, and the other entries of the map are kept.
InterpolateBoundaryValues(ids, function, bv) ==
    LET hit == { d \in Dofs : /\ ComponentMask(d)
                              /\ \E f \in BoundaryFaces :
                                    f.id \in ids /\ d \in f.dofs }
    IN  [d \in (DOMAIN bv) \cup hit |-> IF d \in hit THEN function[d] ELSE bv[d]]

\* The map after the inlet call, and after the walls-and-obstacle call.
InflowBoundaryValues(t) ==
    InterpolateBoundaryValues({0}, InletVelocity(t), << >>)
DirichletBoundaryValues(t) ==
    InterpolateBoundaryValues({2, 3}, ZeroFunction, InflowBoundaryValues(t))

BlockOf(d) == IF d \in VelocityDofs THEN VelocityDofs ELSE PressureDofs

\* A diagonal rule that adds up the magnitudes of the block's diagonal.
SumOfDiagonalEntries(A, block) ==
    LET total == SumOver([i \in Dofs |-> Abs(A[i, i])], block)
    IN  IF total = 0 THEN 1 ELSE total

\* The diagonal value given to the constrained rows of a diagonal block: the
\* magnitude of the block's first nonzero diagonal entry, or 1.
AverageNonzeroDiagonalEntry(A, block) ==
    LET nz == { i \in block : A[i, i] # 0 }
    IN  IF nz = {} THEN 1 ELSE Abs(A[MinOfSet(nz), MinOfSet(nz)])

\* An elimination that leaves the solution vector alone.
ApplyBoundaryValuesKeepingSolution(bv, A, x, b) ==
    LET rows == DOMAIN bv
        diag(d) == AverageNonzeroDiagonalEntry(A, BlockOf(d))
    IN  [ matrix   |-> [p \in DofPairs |->
                          IF p[1] \in rows
                          THEN (IF p[1] = p[2] THEN diag(p[1]) ELSE 0)
                          ELSE A[p]],
          solution |-> x,
          rhs      |-> [d \in Dofs |-> IF d \in rows THEN bv[d] * diag(d) ELSE b[d]] ]

\* MatrixTools::apply_boundary_values(bv, A, x, b, false) on block matrices:
\* every constrained row is cleared, its diagonal set, and the entries of x
\* and b rewritten; columns are not eliminated.
ApplyBoundaryValues(bv, A, x, b) ==
    LET rows == DOMAIN bv
        diag(d) == AverageNonzeroDiagonalEntry(A, BlockOf(d))
    IN  [ matrix   |-> [p \in DofPairs |->
                          IF p[1] \in rows
                          THEN (IF p[1] = p[2] THEN diag(p[1]) ELSE 0)
                          ELSE A[p]],
          solution |-> [d \in Dofs |-> IF d \in rows THEN bv[d] ELSE x[d]],
          rhs      |-> [d \in Dofs |-> IF d \in rows THEN bv[d] * diag(d) ELSE b[d]] ]

\* --------------------------------------------------------------- assemble
\* NavierStokes::assemble(time): every block is zeroed and built afresh.
AssembleBlocks(t) ==
    LET mass      == [p \in DofPairs |-> CellMass(p[1], p[2])]
        stiffness == [p \in DofPairs |-> CellStiffness(p[1], p[2])]
        convection == [p \in DofPairs |->
                         CellConvective(solution, p[1], p[2])
                           + CellTemam(solution, p[1], p[2])]
        coupling  == [p \in DofPairs |-> CellMatrix(p[1], p[2])]
        pmass     == [p \in DofPairs |-> CellPressureMass(p[1], p[2])]
        rhs       == [i \in Dofs |-> CellRhs(solution, i)]
        \* Create the System Matrix F = M + A + C(u_n) + B
        F         == MatAdd(MatAdd(MatAdd(coupling, 1, mass), 1, convection),
                            1, stiffness)
        bv        == DirichletBoundaryValues(t)
        bc        == ApplyBoundaryValues(bv, F, solution, rhs)
    IN  [ system_matrix     |-> bc.matrix,
          mass_matrix       |-> mass,
          stiffness_matrix  |-> stiffness,
          convection_matrix |-> convection,
          pressure_mass     |-> pmass,
          system_rhs        |-> bc.rhs,
          solution          |-> bc.solution,
          boundary_values   |-> bv,
          inflow_values     |-> InflowBoundaryValues(t) ]

\* An assembly that forgets to subtract the stale convection block.
KeepOldConvection(A, C) == A

\* "We delete the previous Convection Matrix from the system matrix".
RemoveOldConvection(A, C) == MatAdd(A, -1, C)

\* The right-hand side of assemble_time_step: previous_solution is read into
\* prev_velocity_values, and the sum uses current_velocity_values alone.
TimeStepRhs(current, previous) == [i \in Dofs |-> CellRhs(current, i)]

\* NavierStokes::assemble_time_step(time): the convection block and the
\* right-hand side are rebuilt; the mass block only when time == -1.
AssembleTimeStepBlocks(t) ==
    LET bdf2      == (t = Bdf2Time)
        F1        == RemoveOldConvection(system_matrix, convection_matrix)
        F2        == IF bdf2 THEN MatAdd(F1, -1, mass_matrix) ELSE F1
        \* mass_matrix is not zeroed before the cell contributions are added
        mass      == IF bdf2
                     THEN MatAdd(mass_matrix, 1,
                                 [p \in DofPairs |-> CellMassBdf2(p[1], p[2])])
                     ELSE mass_matrix
        convection == [p \in DofPairs |-> CellConvective(solution, p[1], p[2])]
        rhs       == TimeStepRhs(solution, previous_solution)
        F3        == IF bdf2 THEN MatAdd(F2, 1, mass) ELSE F2
        F4        == MatAdd(F3, 1, convection)
        bv        == DirichletBoundaryValues(t)
        bc        == ApplyBoundaryValues(bv, F4, solution, rhs)
    IN  [ system_matrix     |-> bc.matrix,
          mass_matrix       |-> mass,
          stiffness_matrix  |-> stiffness_matrix,
          convection_matrix |-> convection,
          pressure_mass     |-> pressure_mass,
          system_rhs        |-> bc.rhs,
          solution          |-> bc.solution,
          boundary_values   |-> bv,
          inflow_values     |-> InflowBoundaryValues(t) ]

\* The assignments an assembly makes to the members of the class.
StoreAssembly(r) ==
    /\ system_matrix' = r.system_matrix
    /\ mass_matrix' = r.mass_matrix
    /\ stiffness_matrix' = r.stiffness_matrix
    /\ convection_matrix' = r.convection_matrix
    /\ pressure_mass' = r.pressure_mass
    /\ system_rhs' = r.system_rhs
    /\ solution' = r.solution
    /\ boundary_values' = r.boundary_values
    /\ inflow_values' = r.inflow_values

\* ------------------------------------------------------- solve_time_step
\* A switch with one more case, taken by the selector 4.
ValidPreconditionersAndFour == {0, 1, 2, 3, 4}

\* The preconditioners the switch of solve_time_step knows.
ValidPreconditioners == {0, 1, 2, 3}

\* What solver.solve can leave in solution_owned when it meets the tolerance:
\* a constrained row reads diag * x = rhs, the other unknowns are free.
SolverResults ==
    LET free == { f \in [Dofs -> VelocityVals \cup PressureVals] :
                    \A d \in Dofs : f[d] \in (IF d \in VelocityDofs
                                              THEN VelocityVals
                                              ELSE PressureVals) }
    IN  { [d \in Dofs |-> IF d \in DOMAIN boundary_values
                          THEN system_rhs[d] \div system_matrix[d, d]
                          ELSE f[d]] : f \in free }

\* ------------------------------------------------------- compute_forces
FaceQuadraturePoints == {1, 2}
\* n = -fe_face_values.normal_vector(q) on the obstacle faces: <<nx, ny>>.
ObstacleNormal(q) == << <<1, 0>>, <<0, 1>> >>[q]
\* current_pressure_values[q] and n * current_velocity_gradients[q] * tangent
FacePressure(u, q) == SumOver([i \in Dofs |-> u[i] * PressureValue(i, q)], Dofs)
FaceShear(u, q) == SumOver([i \in Dofs |-> u[i] * VelocityGradient(i, q)], Dofs)

Drag(u) ==
    SumOver([q \in FaceQuadraturePoints |->
               (rho * nu * FaceShear(u, q) * ObstacleNormal(q)[2]
                  - FacePressure(u, q) * ObstacleNormal(q)[1]) * JxW(q)],
            FaceQuadraturePoints)
Lift(u) ==
    0 - SumOver([q \in FaceQuadraturePoints |->
               (rho * nu * FaceShear(u, q) * ObstacleNormal(q)[1]
                  + FacePressure(u, q) * ObstacleNormal(q)[2]) * JxW(q)],
            FaceQuadraturePoints)

\* inlet_velocity.getMeanVelocity()
MeanVelocity == InletValue(time)
\* c_d and c_l, in units in which D * H = 1.
Coefficients(u) ==
    << (2 * Drag(u)) \div (rho * MeanVelocity * MeanVelocity),
       (2 * Lift(u)) \div (rho * MeanVelocity * MeanVelocity) >>

\* ------------------------------------------------------------------ solve
\* The initial condition u_0 ("the starting solution t0 is zero").
u_0 == ZeroVector

\* A loop test that admits one more iteration.
LoopConditionInclusive == time <= T

\* "while (time < T - 0.5 * deltat)"
LoopCondition == 2 * time < 2 * T - deltat

\* A test with the two branches exchanged.
IsLaterStep(t) == t # deltat

\* A test that also sends the second step to the full assembly.
IsFirstOrSecondStep(t) == t <= 2 * deltat

\* "if( time == deltat ) assemble(time); else assemble_time_step(time);"
IsFirstStep(t) == t = deltat

\* The control point from which previous_solution is read next: the call of
\* assemble_time_step, whose cell loop starts with
\* "get_function_values(previous_solution, prev_velocity_values)".
ReadsPreviousSolution == pc = "assemble" /\ ~IsFirstStep(time)

ApplyInitialCondition ==
    /\ pc = "initial_condition"
    /\ solution_owned' = u_0
    /\ solution' = u_0
    /\ trace' = Append(trace, Event("output"))
    /\ pc' = "loop"
    /\ UNCHANGED << config_vars, time, time_step, matrix_vars, system_rhs,
                    previous_solution, boundary_values, inflow_values,
                    presolve_solution, exception, coeff_vars, mpi_vars >>

LoopEnter ==
    /\ pc = "loop"
    /\ LoopCondition
    /\ time' = time + deltat
    /\ time_step' = time_step + 1
    /\ pc' = "assemble"
    /\ UNCHANGED << config_vars, matrix_vars, system_rhs, solution_owned,
                    solution, previous_solution, boundary_values, inflow_values,
                    presolve_solution, exception, coeff_vars, trace, mpi_vars >>

LoopExit ==
    /\ pc = "loop"
    /\ ~LoopCondition
    /\ trace' = Append(trace, Event("summary"))
    /\ pc' = "done"
    /\ UNCHANGED << config_vars, time, time_step, matrix_vars, system_rhs,
                    solution_owned, solution, previous_solution, boundary_values,
                    inflow_values, presolve_solution, exception, coeff_vars,
                    mpi_vars >>

Assemble ==
    /\ pc = "assemble"
    /\ IsFirstStep(time)
    /\ StoreAssembly(AssembleBlocks(time))
    /\ trace' = Append(trace, Event("assemble"))
    /\ pc' = "snapshot"
    /\ UNCHANGED << config_vars, time, time_step, solution_owned,
                    previous_solution, presolve_solution, exception, coeff_vars,
                    mpi_vars >>

AssembleTimeStep ==
    /\ pc = "assemble"
    /\ ~IsFirstStep(time)
    /\ StoreAssembly(AssembleTimeStepBlocks(time))
    /\ trace' = IF time = Bdf2Time
                THEN trace \o << Event("assemble_time_step"),
                                 Event("Reinitialize Mass Matrix for BDF2") >>
                ELSE Append(trace, Event("assemble_time_step"))
    /\ pc' = "snapshot"
    /\ UNCHANGED << config_vars, time, time_step, solution_owned,
                    previous_solution, presolve_solution, exception, coeff_vars,
                    mpi_vars >>

\* A solve_time_step that takes no snapshot.
SolveWithoutSnapshot ==
    /\ pc = "snapshot"
    /\ pc' = "krylov"
    /\ UNCHANGED << config_vars, time, time_step, matrix_vars, system_rhs,
                    solution_owned, solution, previous_solution, boundary_values,
                    inflow_values, presolve_solution, exception, coeff_vars,
                    trace, mpi_vars >>

\* "previous_solution = solution;"
SolveSnapshot ==
    /\ pc = "snapshot"
    /\ previous_solution' = solution
    /\ trace' = Append(trace, Event("snapshot"))
    /\ pc' = "krylov"
    /\ UNCHANGED << config_vars, time, time_step, matrix_vars, system_rhs,
                    solution_owned, solution, boundary_values, inflow_values,
                    presolve_solution, exception, coeff_vars, mpi_vars >>

\* solver.solve(...) meets the tolerance within maxiter iterations.
KrylovConverged ==
    /\ pc = "krylov"
    /\ selector \in ValidPreconditioners
    /\ \E x \in SolverResults : solution_owned' = x
    /\ presolve_solution' = solution
    /\ trace' = Append(trace, Event("krylov"))
    /\ pc' = "copy_back"
    /\ UNCHANGED << config_vars, time, time_step, matrix_vars, system_rhs,
                    solution, previous_solution, boundary_values, inflow_values,
                    exception, coeff_vars, mpi_vars >>

\* The results of a solve that meets the tolerance without moving the free
\* unknowns of its starting vector solution_owned.
SteadyResults ==
    { x \in SolverResults :
        \A d \in Dofs \ DOMAIN boundary_values : x[d] = solution_owned[d] }

\* solver.solve(...) meets the tolerance, with one of the SteadyResults.
KrylovConvergedAtOnce ==
    /\ pc = "krylov"
    /\ selector \in ValidPreconditioners
    /\ \E x \in SteadyResults : solution_owned' = x
    /\ presolve_solution' = solution
    /\ trace' = Append(trace, Event("krylov"))
    /\ pc' = "copy_back"
    /\ UNCHANGED << config_vars, time, time_step, matrix_vars, system_rhs,
                    solution, previous_solution, boundary_values, inflow_values,
                    exception, coeff_vars, mpi_vars >>

\* solver.solve(...) reaches maxiter: it throws SolverControl::NoConvergence,
\* which neither solve_time_step nor solve catches.
KrylovNoConvergence ==
    /\ pc = "krylov"
    /\ selector \in ValidPreconditioners
    /\ \E x \in SolverResults : solution_owned' = x
    /\ presolve_solution' = solution
    /\ trace' = Append(trace, Event("krylov"))
    /\ exception' = "NoConvergence"
    /\ pc' = "aborted"
    /\ UNCHANGED << config_vars, time, time_step, matrix_vars, system_rhs,
                    solution, previous_solution, boundary_values, inflow_values,
                    coeff_vars, mpi_vars >>

\* "default: throw std::runtime_error("Invalid preconditioner type");"
\* Nothing catches it in solve_time_step or in solve.
InvalidPreconditioner ==
    /\ pc = "krylov"
    /\ selector \notin ValidPreconditioners
    /\ exception' = "runtime_error"
    /\ pc' = "aborted"
    /\ UNCHANGED << config_vars, time, time_step, matrix_vars, system_rhs,
                    solution_owned, solution, previous_solution, boundary_values,
                    inflow_values, presolve_solution, coeff_vars, trace,
                    mpi_vars >>

\* "Result: ... GMRES iterations" and "solution = solution_owned;"
SolveCopyBack ==
    /\ pc = "copy_back"
    /\ solution' = solution_owned
    /\ trace' = Append(trace, Event("Result: GMRES iterations"))
    /\ pc' = "probe"
    /\ UNCHANGED << config_vars, time, time_step, matrix_vars, system_rhs,
                    solution_owned, previous_solution, boundary_values,
                    inflow_values, presolve_solution, exception, coeff_vars,
                    mpi_vars >>

\* A test that probes the field of the last step.
IsLastStep == time = T

\* "if( time == T - deltat )"
IsProbeStep == time = T - deltat

\* "if( time == T - deltat ) compute_pressure_difference();"
PressureDifference ==
    /\ pc = "probe"
    /\ IsProbeStep
    /\ trace' = Append(trace, Event("compute_pressure_difference"))
    /\ pc' = "forces"
    /\ UNCHANGED << config_vars, time, time_step, matrix_vars, system_rhs,
                    solution_owned, solution, previous_solution, boundary_values,
                    inflow_values, presolve_solution, exception, coeff_vars,
                    mpi_vars >>

NoPressureDifference ==
    /\ pc = "probe"
    /\ ~IsProbeStep
    /\ pc' = "forces"
    /\ UNCHANGED << config_vars, time, time_step, matrix_vars, system_rhs,
                    solution_owned, solution, previous_solution, boundary_values,
                    inflow_values, presolve_solution, exception, coeff_vars,
                    trace, mpi_vars >>

\* "if ( time > 0.1) { coefficients = compute_forces(); ... }"
ComputeForces ==
    /\ pc = "forces"
    /\ time > TimeForces
    /\ c_D_max' = Max(Coefficients(solution)[1], c_D_max)
    /\ c_L_min' = Min(Coefficients(solution)[2], c_L_min)
    /\ trace' = Append(trace, Event("compute_forces"))
    /\ pc' = "output"
    /\ UNCHANGED << config_vars, time, time_step, matrix_vars, system_rhs,
                    solution_owned, solution, previous_solution, boundary_values,
                    inflow_values, presolve_solution, exception, mpi_vars >>

NoComputeForces ==
    /\ pc = "forces"
    /\ ~(time > TimeForces)
    /\ pc' = "output"
    /\ UNCHANGED << config_vars, time, time_step, matrix_vars, system_rhs,
                    solution_owned, solution, previous_solution, boundary_values,
                    inflow_values, presolve_solution, exception, coeff_vars,
                    trace, mpi_vars >>

\* "if( time_step % 20 == 0) output(time_step);"
Output ==
    /\ pc = "output"
    /\ trace' = IF time_step % OutputEvery = 0
                THEN Append(trace, Event("output"))
                ELSE trace
    /\ pc' = "loop"
    /\ UNCHANGED << config_vars, time, time_step, matrix_vars, system_rhs,
                    solution_owned, solution, previous_solution, boundary_values,
                    inflow_values, presolve_solution, exception, coeff_vars,
                    mpi_vars >>

\* The state after construction and setup(): every matrix and vector that
\* setup() reinit()s is zero, previous_solution has not been sized.
InitState ==
    /\ pc = "initial_condition"
    /\ time = 0
    /\ time_step = 0
    /\ system_matrix = ZeroMatrix
    /\ mass_matrix = ZeroMatrix
    /\ stiffness_matrix = ZeroMatrix
    /\ convection_matrix = ZeroMatrix
    /\ pressure_mass = ZeroMatrix
    /\ system_rhs = ZeroVector
    /\ solution_owned = ZeroVector
    /\ solution = ZeroVector
    /\ previous_solution = EmptyVector
    /\ boundary_values = << >>
    /\ inflow_values = << >>
    /\ presolve_solution = EmptyVector
    /\ exception = "none"
    /\ c_D_max = CDMaxInit
    /\ c_L_min = CLMinInit
    /\ trace = << >>

InitSolve ==
    /\ deltat \in DeltatVals
    /\ T \in 0 .. MaxT
    /\ inlet_amp \in InletVals \X InletVals
    /\ InitState

Init ==
    /\ InitSolve
    /\ selector = preconditioner_type
    /\ procs = 1
    /\ mpi = << >>

Next ==
    \/ ApplyInitialCondition
    \/ LoopEnter
    \/ LoopExit
    \/ Assemble
    \/ AssembleTimeStep
    \/ SolveSnapshot
    \/ KrylovConverged
    \/ KrylovNoConvergence
    \/ SolveCopyBack
    \/ PressureDifference
    \/ NoPressureDifference
    \/ ComputeForces
    \/ NoComputeForces
    \/ Output

Spec == Init /\ [][Next]_vars

\* solve() on runs of no step, of one step and of LongT / deltat steps, with
\* solves that converge at once or not at all.  Every step is eventually
\* taken: the program is sequential and no call of it blocks.
InitLong ==
    /\ deltat \in DeltatVals
    /\ T \in {0, deltat} \cup (OutputEvery .. LongT)
    /\ inlet_amp \in InletVals \X InletVals
    /\ InitState
    /\ selector = preconditioner_type
    /\ procs = 1
    /\ mpi = << >>

NextLong ==
    \/ ApplyInitialCondition
    \/ LoopEnter
    \/ LoopExit
    \/ Assemble
    \/ AssembleTimeStep
    \/ SolveSnapshot
    \/ KrylovConvergedAtOnce
    \/ KrylovNoConvergence
    \/ SolveCopyBack
    \/ PressureDifference
    \/ NoPressureDifference
    \/ ComputeForces
    \/ NoComputeForces
    \/ Output

SpecLong == InitLong /\ [][NextLong]_vars /\ WF_vars(NextLong)

\* solve() with the selector of the switch taken from 0 .. MaxSelector
\* instead of the literal 0.
InitSelect ==
    /\ InitSolve
    /\ selector \in 0 .. MaxSelector
    /\ procs = 1
    /\ mpi = << >>

NextSelect ==
    \/ Next
    \/ InvalidPreconditioner

SpecSelect == InitSelect /\ [][NextSelect]_vars

\* ------------------------------------------- apply_boundary_values alone
\* The call of MatrixTools::apply_boundary_values that ends both assemblies,
\* on systems and boundary maps taken from small sets, made twice in a row
\* with the same map.  The mask leaves the pressure out of every map.
DiagonalVals == {-2, 0, 3}
OffDiagonalVals == {0, 1}
BoundaryMaps == UNION { [S -> VelocityVals] : S \in SUBSET VelocityDofs }

InitBC ==
    /\ deltat = 1 /\ T = 1 /\ inlet_amp = << 1, 1 >>
    /\ selector = preconditioner_type
    /\ pc = "assembled"
    /\ time = 1
    /\ time_step = 1
    /\ \E dg \in [VelocityDofs -> DiagonalVals], off \in OffDiagonalVals :
         system_matrix = [p \in DofPairs |->
                            IF p[1] # p[2] THEN off
                            ELSE IF p[1] \in VelocityDofs THEN dg[p[1]] ELSE 0]
    /\ mass_matrix = ZeroMatrix
    /\ stiffness_matrix = ZeroMatrix
    /\ convection_matrix = ZeroMatrix
    /\ pressure_mass = ZeroMatrix
    /\ \E b \in VelocityVals : system_rhs = [d \in Dofs |-> b + d]
    /\ solution_owned = ZeroVector
    /\ solution = ZeroVector
    /\ previous_solution = EmptyVector
    /\ boundary_values \in BoundaryMaps
    /\ inflow_values = << >>
    /\ presolve_solution = EmptyVector
    /\ exception = "none"
    /\ c_D_max = CDMaxInit
    /\ c_L_min = CLMinInit
    /\ trace = << >>
    /\ procs = 1
    /\ mpi = << >>

\* One call of apply_boundary_values(boundary_values, system_matrix,
\* solution, system_rhs, false).
ConstrainSystem ==
    /\ LET bc == ApplyBoundaryValues(boundary_values, system_matrix, solution,
                                     system_rhs)
       IN  /\ system_matrix' = bc.matrix
           /\ solution' = bc.solution
           /\ system_rhs' = bc.rhs
    /\ UNCHANGED << config_vars, time, time_step, mass_matrix,
                    stiffness_matrix, convection_matrix, pressure_mass,
                    solution_owned, previous_solution, boundary_values,
                    inflow_values, presolve_solution, exception, coeff_vars,
                    trace, mpi_vars >>

ConstrainOnce ==
    /\ pc = "assembled"
    /\ ConstrainSystem
    /\ pc' = "constrained"

ConstrainAgain ==
    /\ pc = "constrained"
    /\ ConstrainSystem
    /\ pc' = "constrained_again"

NextBC ==
    \/ ConstrainOnce
    \/ ConstrainAgain

SpecBC == InitBC /\ [][NextBC]_vars

\* ------------------------------------------- the "for bdf2" branch, called
\* solve() as it would run if every step after the first called
\* assemble_time_step(-1), the argument the "for bdf2" tests compare with.
AssembleTimeStepBdf2 ==
    /\ pc = "assemble"
    /\ ~IsFirstStep(time)
    /\ StoreAssembly(AssembleTimeStepBlocks(Bdf2Time))
    /\ trace' = trace \o << Event("assemble_time_step"),
                             Event("Reinitialize Mass Matrix for BDF2") >>
    /\ pc' = "snapshot"
    /\ UNCHANGED << config_vars, time, time_step, solution_owned,
                    previous_solution, presolve_solution, exception, coeff_vars,
                    mpi_vars >>

NextBdf2 ==
    \/ ApplyInitialCondition
    \/ LoopEnter
    \/ LoopExit
    \/ Assemble
    \/ AssembleTimeStepBdf2
    \/ SolveSnapshot
    \/ KrylovConverged
    \/ KrylovNoConvergence
    \/ SolveCopyBack
    \/ PressureDifference
    \/ NoPressureDifference
    \/ ComputeForces
    \/ NoComputeForces
    \/ Output

SpecBdf2 == Init /\ [][NextBdf2]_vars

\* ================================================= the collective-call view
\* One iteration of the loop of solve() as every MPI process executes it.
\* Each process runs its local code up to the next collective call and
\* blocks there; a collective completes when every process has called it.
\* mpi[r] is the state of the process of rank r:
\*   last      the collective it last returned from ("start": none yet)
\*   waiting   the collective it is blocked in, "none" or "done"
\*   calls     the collectives it has called, in order
\*   p1_here, p2_here   whether point_value finds p_a, p_e on this process
\*   obstacle  whether the process owns a face with boundary id 3
\*   pres_point1, pres_point2, global_pres_point1, global_pres_point2,
\*   local_drag, drag   the locals of compute_pressure_difference and
\*                      compute_forces
Ranks == 0 .. procs - 1

\* The pressure VectorTools::point_value reads at p_a and at p_e.
PointPressure(u, point) ==
    SumOver([i \in Dofs |-> u[i] * (IF i \in PressureDofs THEN point ELSE 0)],
            Dofs)
p_a == 1
p_e == 2

\* Control flow of the loop body after the linear solve.
AfterForces == IF time_step % OutputEvery = 0 THEN "output" ELSE "done"
AfterProbe == IF time > TimeForces THEN "sum_drag" ELSE AfterForces

\* A process that leaves compute_pressure_difference from a catch block,
\* and compute_forces when it owns no obstacle face.
NextCollectiveSkipping(r, after) ==
    CASE after = "start"            -> "compress"
      [] after = "compress"         -> "boundary_compress"
      [] after = "boundary_compress" -> "krylov"
      [] after = "krylov"           ->
            IF time = T - deltat
            THEN (IF mpi[r].p1_here /\ mpi[r].p2_here THEN "reduce1" ELSE AfterProbe)
            ELSE AfterProbe
      [] after = "reduce1"          -> "reduce2"
      [] after = "reduce2"          -> "barrier"
      [] after = "barrier"          -> AfterProbe
      [] after = "sum_drag"         -> "sum_lift"
      [] after = "sum_lift"         -> AfterForces
      [] after = "output"           -> "done"

\* The next collective the process of rank r calls after returning from
\* 'after', or "done": compress of the assembly, compress of
\* apply_boundary_values, solver.solve, the two MPI_Reduce and the
\* MPI_Barrier of compute_pressure_difference, the two Utilities::MPI::sum
\* of compute_forces, write_vtu_with_pvtu_record of output.
NextCollective(r, after) ==
    CASE after = "start"            -> "compress"
      [] after = "compress"         -> "boundary_compress"
      [] after = "boundary_compress" -> "krylov"
      [] after = "krylov"           ->
            IF time = T - deltat THEN "reduce1" ELSE AfterProbe
      [] after = "reduce1"          -> "reduce2"
      [] after = "reduce2"          -> "barrier"
      [] after = "barrier"          -> AfterProbe
      [] after = "sum_drag"         -> "sum_lift"
      [] after = "sum_lift"         -> AfterForces
      [] after = "output"           -> "done"

\* The local code of rank r between 'after' and its next collective call.
LocalCode(r, after) ==
    LET m == mpi[r]
    IN  IF after = "krylov" /\ time = T - deltat
        THEN \* try { point_value } catch { available = false }
             [m EXCEPT !.pres_point1 = IF m.p1_here
                                       THEN PointPressure(solution, p_a) ELSE 0,
                       !.pres_point2 = IF m.p2_here
                                       THEN PointPressure(solution, p_e) ELSE 0]
        ELSE IF NextCollective(r, after) = "sum_drag"
        THEN \* the loop over the faces with boundary id 3
             [m EXCEPT !.local_drag = IF m.obstacle THEN Drag(solution) ELSE 0]
        ELSE m

\* Rank r runs to its next collective call, or to the end of the iteration.
MpiRun(r) ==
    /\ pc = "iteration"
    /\ mpi[r].waiting = "none"
    /\ LET c == NextCollective(r, mpi[r].last)
           m == LocalCode(r, mpi[r].last)
       IN  mpi' = [mpi EXCEPT ![r] =
                     [m EXCEPT !.waiting = c,
                               !.calls = IF c = "done" THEN m.calls
                                         ELSE Append(m.calls, c)]]
    /\ UNCHANGED << config_vars, pc, time, time_step, matrix_vars, system_rhs,
                    solution_owned, solution, previous_solution, boundary_values,
                    inflow_values, presolve_solution, exception, coeff_vars,
                    trace, procs >>

RECURSIVE MaxOver(_, _)
MaxOver(f, S) ==
    LET x == CHOOSE y \in S : TRUE
    IN  IF S = {x} THEN f[x] ELSE Max(f[x], MaxOver(f, S \ {x}))

\* What a completed collective leaves on rank r.
Completed(c, r) ==
    LET m == [mpi[r] EXCEPT !.last = c, !.waiting = "none"]
    IN  CASE c = "reduce1" /\ r = 0 ->
               \* MPI_Reduce(&pres_point1, &global_pres_point1, ..., MPI_MAX, 0, ...)
               [m EXCEPT !.global_pres_point1 =
                            MaxOver([q \in Ranks |-> mpi[q].pres_point1], Ranks)]
          [] c = "reduce2" /\ r = 0 ->
               [m EXCEPT !.global_pres_point2 =
                            MaxOver([q \in Ranks |-> mpi[q].pres_point2], Ranks)]
          [] c = "sum_drag" ->
               \* drag = Utilities::MPI::sum(local_drag, MPI_COMM_WORLD)
               [m EXCEPT !.drag =
                            SumOver([q \in Ranks |-> mpi[q].local_drag], Ranks)]
          [] OTHER -> m

\* Every process has called the collective c: it completes on all of them.
MpiCollective ==
    /\ pc = "iteration"
    /\ \E c \in { mpi[r].waiting : r \in Ranks } \ {"none", "done"} :
          /\ \A r \in Ranks : mpi[r].waiting = c
          /\ mpi' = [r \in Ranks |-> Completed(c, r)]
    /\ UNCHANGED << config_vars, pc, time, time_step, matrix_vars, system_rhs,
                    solution_owned, solution, previous_solution, boundary_values,
                    inflow_values, presolve_solution, exception, coeff_vars,
                    trace, procs >>

\* The start of an iteration of the loop on 1 .. MaxProcs processes: the
\* replicated variables have the same value on every process; each probe
\* point is found by at most one process.  The matrices are not part of
\* this view.
InitMPI ==
    /\ deltat \in DeltatVals
    /\ inlet_amp \in InletVals \X InletVals
    /\ time_step \in {1, 2, OutputEvery}
    /\ time = time_step * deltat
    /\ T \in {time, time + deltat}
    /\ selector = preconditioner_type
    /\ pc = "iteration"
    /\ system_matrix = ZeroMatrix
    /\ mass_matrix = ZeroMatrix
    /\ stiffness_matrix = ZeroMatrix
    /\ convection_matrix = ZeroMatrix
    /\ pressure_mass = ZeroMatrix
    /\ system_rhs = ZeroVector
    /\ solution_owned \in { [d \in Dofs |-> IF d \in PressureDofs THEN v ELSE 0] :
                              v \in PressureVals }
    /\ solution = solution_owned
    /\ previous_solution = ZeroVector
    /\ boundary_values = << >>
    /\ inflow_values = << >>
    /\ presolve_solution = ZeroVector
    /\ exception = "none"
    /\ c_D_max = CDMaxInit
    /\ c_L_min = CLMinInit
    /\ trace = << >>
    /\ procs \in 1 .. MaxProcs
    /\ \E own1 \in 0 .. procs : \E own2 \in 0 .. procs :
       \E faces \in SUBSET Ranks :
          mpi = [r \in Ranks |->
                   [ last |-> "start", waiting |-> "none", calls |-> << >>,
                     p1_here |-> (r + 1 = own1), p2_here |-> (r + 1 = own2),
                     obstacle |-> (r \in faces),
                     pres_point1 |-> 0, pres_point2 |-> 0,
                     global_pres_point1 |-> 0, global_pres_point2 |-> 0,
                     local_drag |-> 0, drag |-> 0 ]]

NextMPI ==
    \/ \E r \in Ranks : MpiRun(r)
    \/ MpiCollective

SpecMPI == InitMPI /\ [][NextMPI]_vars

\* ================================================================ claims
\* Events of the trace.
EventIndices(name) == { k \in DOMAIN trace : trace[k].ev = name }
StepEventIndices(name, s) ==
    { k \in DOMAIN trace : trace[k].ev = name /\ trace[k].step = s }
Assembled == EventIndices("assemble") \cup EventIndices("assemble_time_step") # {}
UnconstrainedRows == Dofs \ DOMAIN boundary_values

\* C1: a run of solve() that has performed at least two time steps has
\* rebuilt the Mass block (the "Reinitialize Mass Matrix for BDF2" branch of
\* assemble_time_step) at exactly one step.
C1_MassRebuiltExactlyOnce ==
    (pc = "done" /\ time_step >= 2) =>
        Cardinality(EventIndices("Reinitialize Mass Matrix for BDF2")) = 1

\* C2: the full assembly assemble() runs at the first time step and at no
\* other step; every step with index >= 2 runs assemble_time_step().
C2_FullAssemblyOnlyAtFirstStep ==
    \A k \in DOMAIN trace :
        /\ trace[k].ev = "assemble" => trace[k].step = 1
        /\ trace[k].ev = "assemble_time_step" => trace[k].step >= 2
C2_Witness ==
    /\ pc = "done"
    /\ time_step >= 3
    /\ StepEventIndices("assemble", 1) # {}
    /\ \A s \in 2 .. time_step : StepEventIndices("assemble_time_step", s) # {}

\* C3: after the assembly of every time step, on every row that is not a
\* Dirichlet row, the System Operator is the sum of the stored Mass,
\* Stiffness and Convection blocks and of the Coupling contribution.
C3_SystemIsSumOfBlocks ==
    Assembled =>
        \A i \in UnconstrainedRows : \A j \in Dofs :
            system_matrix[i, j] =
                mass_matrix[i, j] + stiffness_matrix[i, j]
                  + convection_matrix[i, j] + CellMatrix(i, j)
C3_Witness ==
    /\ pc = "snapshot"
    /\ time_step >= 3
    /\ \E i \in UnconstrainedRows \cap VelocityDofs :
          convection_matrix[i, i] # 0

\* C4: in every time step the snapshot previous_solution <- solution is
\* taken exactly once, after the assembly of the step and before its Krylov
\* solve; so when the assembly of a step >= 2 starts, solution is the field
\* the previous solve produced and previous_solution is the field that solve
\* started from.
C4_SnapshotOncePerStep ==
    /\ \A s \in 1 .. time_step :
          LET asm  == StepEventIndices("assemble", s)
                        \cup StepEventIndices("assemble_time_step", s)
              snap == StepEventIndices("snapshot", s)
              kry  == StepEventIndices("krylov", s)
          IN  /\ Cardinality(snap) <= 1
              /\ \A k \in snap : \E a \in asm : a < k
              /\ \A k \in kry : \E n \in snap : n < k
    /\ (pc = "assemble" /\ time_step >= 2) =>
          /\ solution = solution_owned
          /\ previous_solution = presolve_solution
C4_Witness ==
    /\ pc = "assemble"
    /\ time_step >= 3
    /\ previous_solution # solution
    /\ Cardinality(EventIndices("snapshot")) = time_step - 1

\* C5: when the Krylov solve of a step ends without convergence, solve()
\* is not aborted: it goes on with the rest of the step and the next steps.
C5_RunContinuesAfterNoConvergence ==
    exception = "NoConvergence" => pc # "aborted"

\* The collective-call view.
AllDone == \A r \in Ranks : mpi[r].waiting = "done"
IsPrefix(a, b) == Len(a) <= Len(b) /\ SubSeq(b, 1, Len(a)) = a

\* C6: when exactly one process holds each probe point and the others
\* contribute 0, the values rank 0 obtains from the two reductions are the
\* owners' pressure values, whatever their sign.
C6_ReductionYieldsOwnersValue ==
    ( /\ mpi[0].last \in {"reduce2", "barrier"}
      /\ \E r \in Ranks : mpi[r].p1_here
      /\ \E r \in Ranks : mpi[r].p2_here )
    => /\ mpi[0].global_pres_point1 = PointPressure(solution, p_a)
       /\ mpi[0].global_pres_point2 = PointPressure(solution, p_e)

\* C7: all processes make the same sequence of collective calls, whatever
\* their local data, so no process waits in a collective that another
\* process does not call: the calls made so far by two processes are prefixes
\* of one another, and when every process is blocked they are all in the
\* same collective.
C7_SameCollectiveSequence ==
    /\ \A r \in Ranks : \A q \in Ranks :
          IsPrefix(mpi[r].calls, mpi[q].calls) \/ IsPrefix(mpi[q].calls, mpi[r].calls)
    /\ (\A r \in Ranks : mpi[r].waiting # "none") =>
          \A r \in Ranks : \A q \in Ranks : mpi[r].waiting = mpi[q].waiting
C7_Witness ==
    /\ procs >= 2
    /\ AllDone
    /\ \E r \in Ranks : ~mpi[r].obstacle /\ ~mpi[r].p1_here /\ ~mpi[r].p2_here
    /\ \E r \in Ranks : mpi[r].obstacle /\ mpi[r].p1_here
    /\ \A r \in Ranks :
          \A c \in {"compress", "krylov", "reduce1", "reduce2", "barrier",
                    "sum_drag", "sum_lift"} :
             \E k \in DOMAIN mpi[r].calls : mpi[r].calls[k] = c

\* C8: no DoF that received a value from the inflow condition has it
\* overwritten by the no-slip condition in the boundary map of an assembly.
C8_InflowValuesKept ==
    \A d \in DOMAIN inflow_values : boundary_values[d] = inflow_values[d]

\* C9: every pressure-pressure entry of system_matrix is zero in every
\* state, and the pressure-mass term is held by pressure_mass alone.
C9_PressurePressureBlockZero ==
    /\ \A i \in PressureDofs : \A j \in PressureDofs : system_matrix[i, j] = 0
    /\ Assembled =>
          \A i \in PressureDofs : \A j \in PressureDofs :
              pressure_mass[i, j] = CellPressureMass(i, j)
C9_Witness ==
    /\ pc = "snapshot"
    /\ time_step >= 2
    /\ DOMAIN boundary_values # {}
    /\ \E i \in PressureDofs : pressure_mass[i, i] # 0

\* C10: in every step after the first, the right-hand side left by
\* assemble_time_step depends on previous_solution: some other previous
\* field would have given another right-hand side on an unconstrained row.
C10_RhsDependsOnPreviousSolution ==
    (pc = "snapshot" /\ time_step >= 2) =>
        \E p \in [Dofs -> VelocityVals \cup PressureVals] :
            \E i \in UnconstrainedRows :
                TimeStepRhs(solution, p)[i] # system_rhs[i]


\* C11 as stated: when the selector is outside {0, 1, 2, 3}, the error is
\* raised with no Krylov solve invoked and with solution, solution_owned
\* and previous_solution as they were when solve_time_step was entered (the
\* error ends the first step, which is entered with previous_solution never
\* assigned and solution_owned holding the initial condition).
AfterSwitch == pc \in {"copy_back", "probe", "forces", "output", "aborted"}
SolutionAfterFirstAssembly ==
    [d \in Dofs |-> IF d \in DOMAIN boundary_values
                    THEN boundary_values[d] ELSE u_0[d]]
ConstrainedRowsKept ==
    \A d \in DOMAIN boundary_values :
        /\ system_rhs'[d] = system_rhs[d]
        /\ \A j \in Dofs : system_matrix'[d, j] = system_matrix[d, j]
C12_EliminationIdempotent ==
    [][(pc = "constrained" /\ pc' = "constrained_again") => ConstrainedRowsKept]_vars
\* A system constrained twice whose first diagonal entry is a constrained
\* row with a diagonal other than 1 and a nonzero boundary value.
C12_Witness ==
    /\ pc = "constrained_again"
    /\ 1 \in DOMAIN boundary_values
    /\ 3 \notin DOMAIN boundary_values
    /\ boundary_values[1] # 0
    /\ system_matrix[1, 1] = 2
    /\ system_matrix[3, 3] = 3
    /\ system_matrix[3, 1] # 0

\* C13 as stated: the summary is printed once, after the last step and only
\* when the run ends normally, and the extremes it prints cover every step
\* the run executed: once a step's forces stage is over, and still when the
\* summary is printed, c_D_max is no less than the drag coefficient of that
\* step's field and c_L_min no more than its lift coefficient.
StepIsOver == time_step >= 1 /\ pc \in {"output", "loop", "done"}
C13_SummaryOverAllSteps ==
    /\ Cardinality(EventIndices("summary")) = (IF pc = "done" THEN 1 ELSE 0)
    /\ pc = "done" => trace[Len(trace)].ev = "summary"
    /\ StepIsOver => /\ c_D_max >= Coefficients(solution)[1]
                     /\ c_L_min <= Coefficients(solution)[2]

\* C14 as stated: when assemble_time_step(-1) has run after the first-step
\* assemble, the Mass block it leaves is one half of the first-step Mass
\* block (weight 0.5/deltat against 1/deltat), and on every row that is not
\* a Dirichlet row the System Operator is the sum of the stored blocks, the
\* rebuilt Mass block among them.
FirstStepMass == [p \in DofPairs |-> CellMass(p[1], p[2])]
AfterFirstBdf2Assembly ==
    /\ pc = "snapshot"
    /\ time_step = 2
    /\ EventIndices("Reinitialize Mass Matrix for BDF2") # {}
C14_MassRebuiltWithHalfWeight ==
    AfterFirstBdf2Assembly =>
        /\ \A p \in DofPairs : 2 * mass_matrix[p] = FirstStepMass[p]
        /\ \A i \in UnconstrainedRows : \A j \in Dofs :
              system_matrix[i, j] =
                  mass_matrix[i, j] + stiffness_matrix[i, j]
                    + convection_matrix[i, j] + CellMatrix(i, j)

\* The parts of C15 that do not concern solution: an assembly of a step
\* after the first (assemble_time_step with time # -1) keeps mass_matrix,
\* stiffness_matrix, pressure_mass and previous_solution, rebuilds
\* convection_matrix and system_rhs from zero, and changes system_matrix
\* only by exchanging the old convection block for the new one and by
\* enforcing the Dirichlet rows.
IncrementalAssemblyStep == pc = "assemble" /\ pc' = "snapshot" /\ time_step >= 2
IncrementalAssemblyFrame ==
    /\ mass_matrix' = mass_matrix
    /\ stiffness_matrix' = stiffness_matrix
    /\ pressure_mass' = pressure_mass
    /\ previous_solution' = previous_solution
    /\ convection_matrix' =
          [p \in DofPairs |-> CellConvective(solution, p[1], p[2])]
    /\ \A i \in Dofs \ DOMAIN boundary_values' :
          /\ system_rhs'[i] = CellRhs(solution, i)
          /\ \A j \in Dofs :
                system_matrix'[i, j] =
                    system_matrix[i, j] - convection_matrix[i, j]
                      + convection_matrix'[i, j]
    /\ \A i \in DOMAIN boundary_values' :
          /\ system_matrix'[i, i] > 0
          /\ system_rhs'[i] = boundary_values'[i] * system_matrix'[i, i]
          /\ \A j \in Dofs \ {i} : system_matrix'[i, j] = 0

\* C15 as stated: the incremental assembly of a step changes nothing but
\* convection_matrix, system_rhs and system_matrix; solution is among the
\* fields it leaves unchanged.
C15_IncrementalAssemblyKeepsSolution ==
    [][IncrementalAssemblyStep =>
          (IncrementalAssemblyFrame /\ solution' = solution)]_vars

\* C15 as amended: the same frame, except that the assembly overwrites the
\* Dirichlet entries of solution with the boundary values of the new time
\* and leaves the other entries of solution unchanged.
C15_IncrementalAssemblyFrame ==
    [][IncrementalAssemblyStep =>
          /\ IncrementalAssemblyFrame
          /\ \A d \in Dofs :
                solution'[d] = IF d \in DOMAIN boundary_values'
                               THEN boundary_values'[d] ELSE solution[d]]_vars
\* After the assembly of a step >= 2: solution_owned still holds the field
\* the assembly started from, and solution differs from it.
C15_Witness ==
    /\ pc = "snapshot"
    /\ time_step >= 2
    /\ EventIndices("Reinitialize Mass Matrix for BDF2") = {}
    /\ solution # solution_owned
    /\ convection_matrix # ZeroMatrix

\* C16 as stated: after the assembly of every time step, the first and
\* the later ones alike, the Convection block is the sum of the linearized
\* convective term and of the Temam term 1/2 (div u)(u, v), both taken
\* with the field the assembly read (solution_owned still holds it).
C16_ConvectionHasStabilization ==
    (pc = "snapshot" /\ Assembled) =>
        convection_matrix =
            [p \in DofPairs |-> CellConvective(solution_owned, p[1], p[2])
                                  + CellTemam(solution_owned, p[1], p[2])]

\* C17: previous_solution is never read before it has been assigned.  It is
\* unassigned exactly as long as no snapshot was taken (setup and the
\* first-step assemble leave it so), the first snapshot is the one of step
\* 1, after the first-step assemble, and whenever assemble_time_step is
\* about to read it the step is >= 2 and it holds a whole field.
C17_PreviousSolutionAssignedBeforeRead ==
    /\ (previous_solution = EmptyVector) <=> (EventIndices("snapshot") = {})
    /\ \A k \in EventIndices("snapshot") :
          \E a \in EventIndices("assemble") : a < k /\ trace[a].step = 1
    /\ ReadsPreviousSolution =>
          /\ time_step >= 2
          /\ StepEventIndices("snapshot", 1) # {}
          /\ DOMAIN previous_solution = Dofs
C17_Witness ==
    /\ ReadsPreviousSolution
    /\ time_step = 2
    /\ previous_solution # EmptyVector
    /\ previous_solution # solution

\* C18: when T = N * deltat, compute_pressure_difference() is invoked at
\* most once in a run; every invocation is at step N - 1, right after the
\* solve of that step has printed its result; a run that completes has
\* invoked it once if N >= 2 and never if N <= 1; it is never invoked at
\* the final step N.
ProbeCalls == EventIndices("compute_pressure_difference")
C18_PressureDifferenceOnceBeforeLastStep ==
    (T % deltat = 0) =>
        LET N == T \div deltat
        IN  /\ Cardinality(ProbeCalls) <= 1
            /\ \A k \in ProbeCalls :
                  /\ trace[k].step = N - 1
                  /\ trace[k].step # N
                  /\ k > 1
                  /\ trace[k - 1] = [ev |-> "Result: GMRES iterations",
                                     step |-> N - 1]
            /\ pc = "done" =>
                  Cardinality(ProbeCalls) = (IF N >= 2 THEN 1 ELSE 0)
C18_Witness ==
    /\ pc = "done"
    /\ T = 4 * deltat
    /\ time_step = 4
    /\ \E k \in ProbeCalls : trace[k].step = 3

\* C19: for T = N * deltat the time loop ends after exactly N iterations
\* unless a solve raises an error: time is time_step * deltat throughout,
\* the run ends with time_step = N and time = T; the steps 1 .. N are taken
\* in order, each as assembly, snapshot, Krylov solve, result, then the
\* pressure probe and the forces where they apply, then output exactly when
\* the step is a multiple of 20; and the assembly of the next step starts
\* only after the solve of the current one has returned.
Stage(ev) ==
    CASE ev \in {"assemble", "assemble_time_step"} -> 1
      [] ev = "Reinitialize Mass Matrix for BDF2" -> 2
      [] ev = "snapshot" -> 3
      [] ev = "krylov" -> 4
      [] ev = "Result: GMRES iterations" -> 5
      [] ev = "compute_pressure_difference" -> 6
      [] ev = "compute_forces" -> 7
      [] ev = "output" -> 8
      [] ev = "summary" -> 9
StepsCompleted == IF pc \in {"loop", "done"} THEN time_step ELSE time_step - 1
EventsInOrder ==
    \A k \in 1 .. Len(trace) - 1 :
        \/ /\ trace[k + 1].step = trace[k].step
           /\ Stage(trace[k + 1].ev) > Stage(trace[k].ev)
        \/ /\ trace[k + 1].step = trace[k].step + 1
           /\ Stage(trace[k + 1].ev) = 1
           /\ Stage(trace[k].ev) >= Stage("Result: GMRES iterations")
StepsWhole ==
    \A s \in 1 .. StepsCompleted :
        /\ StepEventIndices("assemble", s)
             \cup StepEventIndices("assemble_time_step", s) # {}
        /\ StepEventIndices("snapshot", s) # {}
        /\ StepEventIndices("krylov", s) # {}
        /\ StepEventIndices("Result: GMRES iterations", s) # {}
        /\ (StepEventIndices("output", s) # {}) <=> (s % OutputEvery = 0)
LoopRunsNIterations ==
    (T % deltat = 0) =>
        /\ time = time_step * deltat
        /\ time_step <= T \div deltat
        /\ pc = "done" => (time_step = T \div deltat /\ time = T)
        /\ EventsInOrder
        /\ StepsWhole
C19_LoopTerminatesAfterNIterations ==
    /\ []LoopRunsNIterations
    /\ <>(pc = "done" \/ exception # "none")
C19_Witness ==
    /\ pc = "done"
    /\ T = OutputEvery * deltat
    /\ time_step = OutputEvery
    /\ StepEventIndices("output", OutputEvery) # {}
    /\ StepEventIndices("compute_pressure_difference", OutputEvery - 1) # {}

====
